---- MODULE Spec2Model ----
(***************************************************************************)
(* Growth Curve Dashboard (dashboard_streamlite.py).                       *)
(*                                                                         *)
(* The program is a Streamlit script: every user interaction re-executes   *)
(* the whole script from its first line to its last.  What survives from   *)
(* one execution to the next is the widget state kept by Streamlit (the    *)
(* form's number inputs, the uploaded file, the select box); every Python  *)
(* variable of the script (user_data, df_obs, params, regions, popt) is    *)
(* rebuilt by each execution.                                              *)
(*                                                                         *)
(* Numbers.  The script computes in float64.  The model keeps the finite   *)
(* precision and drops the width: a real is an integer count of 1/Scale    *)
(* units, and every arithmetic operation returns the representable value   *)
(* nearest to the exact result.  Ages are exact rationals, a pair          *)
(* <<numerator, denominator>>.                                             *)
(***************************************************************************)
EXTENDS Integers, Sequences, FiniteSets, TLC

VARIABLES
  \* Widget state Streamlit keeps from one execution of the script to the next.
  slots,            \* number inputs age_1..age_5, wt_1..wt_5: <<age, weight>> each
  uploaded,         \* the file uploader's file, "none" when there is none
  choice,           \* the option the select box holds
  input_mode,       \* the radio button
  \* The environment: the file beside the script.
  defaultFile,
  \* The script's variables as its latest execution left them.
  trigger,          \* the interaction that started the execution
  submitted,        \* st.form_submit_button's value
  df_obs,           \* the observations, <<age, weight>> each
  loaded,           \* params as load_parameters returned it
  params,           \* params when the execution ended
  selected_region,
  fit,              \* "none", "ok" or "failed"
  popt,             \* the solver's triple when fit = "ok"
  solverCalls,      \* calls of curve_fit in the execution
  button,           \* st.sidebar.button's value
  curve,            \* the points plotted: [x |-> age, y |-> weight] each
  messages,         \* what the execution reported, in order
  outcome,          \* "completed", "stopped" (st.stop) or "exception"
  \* History of the session.
  loads,            \* calls of load_parameters so far
  lastFit,          \* the latest successful fit since the file last changed
  prevFit,          \* fit of the execution before the latest
  \* The growth function on its own: a triple, two ages and the two values.
  gB, gAge, gVal, gPrevAge, gPrevVal

widgetVars == <<slots, uploaded, choice, input_mode, defaultFile>>
scriptVars == <<trigger, submitted, df_obs, loaded, params, selected_region,
                fit, popt, solverCalls, button, curve, messages, outcome>>
historyVars == <<loads, lastFit, prevFit>>
appVars == <<widgetVars, scriptVars, historyVars>>
gvars == <<gB, gAge, gVal, gPrevAge, gPrevVal>>
vars == <<appVars, gvars>>

\* Resolution of the modelled reals: one unit is 1/Scale.
Scale == 256
\* Resolution used inside Exp, the number of terms of its series, and the
\* value at which it overflows (1/Scale units).
Prec == 16384
ExpTerms == 10
ExpMax == 8192

(***************************************************************************)
(* Arithmetic                                                              *)
(***************************************************************************)

\* The integer nearest to n/d (d > 0), halves rounded up.
Round(n, d) == (2 * n + d) \div (2 * d)

\* e^(-r/Prec) in 1/Prec units, for 0 <= r <= Prec: the series
\* 1 - x(1 - x/2 (1 - x/3 (...))) cut after ExpTerms terms.
RECURSIVE ExpSeries(_, _)
ExpSeries(r, k) ==
  IF k > ExpTerms THEN Prec
  ELSE Prec - Round(r * ExpSeries(r, k + 1), Prec * k)

\* e^(-1) in 1/Prec units.
ExpOne == ExpSeries(Prec, 1)

\* acc * e^(-q) in 1/Prec units, for a natural q.
RECURSIVE ExpPow(_, _)
ExpPow(acc, q) ==
  IF q = 0 \/ acc = 0 THEN acc
  ELSE ExpPow(Round(acc * ExpOne, Prec), q - 1)

\* e^(-t/Scale) in 1/Prec units, t >= 0.
ExpDecay(t) ==
  ExpPow(ExpSeries(Round((t % Scale) * Prec, Scale), 1), t \div Scale)

\* np.exp(x), x and the result in 1/Scale units.  At x <= 0 it is at most 1
\* (Scale units), 1 at x = 0, and underflows to 0 for large -x.  At x > 0 it
\* is the reciprocal, and overflows to ExpMax (float64 has inf there).
Exp(x) ==
  IF x <= 0 THEN Round(ExpDecay(0 - x) * Scale, Prec)
  ELSE LET e == ExpDecay(x)
       IN  IF e * ExpMax < Prec * Scale THEN ExpMax
           ELSE Round(Prec * Scale, e)

\* gompertz with the inner np.exp left out: b0 * exp(-b1 * (b2 * days)).
GompertzNoInnerExp(days, b0, b1, b2) ==
  LET t == Round(b2 * days[1], days[2])
      u == Round(b1 * t, Scale)
  IN  Round(b0 * Exp(0 - u), Scale)

\* gompertz(days, b0, b1, b2) = b0 * exp(-b1 * exp(-b2 * days)).
\* days is a rational <<n, d>>; b0, b1, b2 and the result are in 1/Scale
\* units.
gompertz(days, b0, b1, b2) ==
  LET t == Round(b2 * days[1], days[2])
      u == Round(b1 * Exp(0 - t), Scale)
  IN  Round(b0 * Exp(0 - u), Scale)

(***************************************************************************)
(* Data                                                                    *)
(***************************************************************************)

\* An upper bound on the executions of the script in one session.
MaxRuns == 4

\* range(1, 6): the form's five rows.
NumSlots == 5

\* np.linspace(0, 800, 200).
CurveStart == 0
CurveStop == 800
CurveCount == 200

\* p0 = [400, 3, 0.01].
P0 == <<400 * Scale, 3 * Scale, Round(Scale, 100)>>

\* A null cell of the ID column, and the select box's value when it has no
\* options.  A null ID equals nothing, and nothing else is the string None.
NaN == "NaN"
None == "None"

Row(id, b0, b1, b2) == [ID |-> id, b0 |-> b0, b1 |-> b1, b2 |-> b2]

RequiredColumns == {"ID", "b0", "b1", "b2"}

\* The parameter files of the model: the default file beside the script (or
\* none), and the files a user may upload.
FileNames == {"default", "dup", "nullids", "badcols"}
UploadNames == FileNames \ {"default"}

FileContent(name) ==
  CASE name = "default" ->
         [cols |-> RequiredColumns,
          rows |-> << Row("A", 400 * Scale, 3 * Scale, 3),
                      Row("B", 300 * Scale, 2 * Scale, 5) >>]
    [] name = "dup" ->
         [cols |-> RequiredColumns \cup {"note"},
          rows |-> << Row("A", 400 * Scale, 3 * Scale, 3),
                      Row(NaN, 100 * Scale, Scale, 1),
                      Row("C", 350 * Scale, 4 * Scale, 2),
                      Row("A", 450 * Scale, 2 * Scale, 4) >>]
    [] name = "nullids" ->
         [cols |-> RequiredColumns,
          rows |-> << Row(NaN, 400 * Scale, 3 * Scale, 3) >>]
    [] OTHER ->
         [cols |-> {"ID", "b0", "b1"}, rows |-> << >>]

\* What the form may be submitted with: <<age, weight>> per row.  Ages are
\* integers of 0..800, weights are non-negative.
Forms ==
  { << <<0, 0>>, <<0, 0>>, <<0, 0>>, <<0, 0>>, <<0, 0>> >>,
    << <<0, 45>>, <<100, 0>>, <<0, 0>>, <<0, 0>>, <<0, 0>> >>,
    << <<100, 45>>, <<0, 0>>, <<0, 0>>, <<0, 0>>, <<0, 0>> >>,
    << <<0, 0>>, <<100, 45>>, <<0, 30>>, <<300, 210>>, <<0, 0>> >>,
    << <<300, 210>>, <<100, 45>>, <<100, 45>>, <<0, 50>>, <<500, 0>> >>,
    << <<100, 45>>, <<200, 120>>, <<300, 210>>, <<400, 290>>, <<500, 340>> >> }

\* Triples the solver may return, in 1/Scale units: any sign, any size.
Popts == { <<350 * Scale, 4 * Scale, 2>>, <<0 - 20 * Scale, 3 * Scale, 0 - 1>> }

NoPopt == <<0, 0, 0>>
NoLastFit == [ok |-> FALSE, region |-> None, popt |-> NoPopt]

(***************************************************************************)
(* The script, piece by piece                                              *)
(***************************************************************************)

\* The form's filter with the age test left out.
KeepsWeightOnly(slot) == slot[2] > 0

\* if age > 0 and weight > 0
Keeps(slot) == slot[1] > 0 /\ slot[2] > 0

\* user_data: the rows of the form that pass the filter, appended in row
\* order.
RECURSIVE UserData(_, _)
UserData(s, i) ==
  IF i > NumSlots THEN << >>
  ELSE (IF Keeps(s[i]) THEN << s[i] >> ELSE << >>) \o UserData(s, i + 1)

\* df_obs = pd.DataFrame(user_data, ...) if user_data else pd.DataFrame()
DfObs(user_data) == IF user_data # << >> THEN user_data ELSE << >>

\* xdata = df_obs["Age"].values, ydata = df_obs["Weight"].values
Column(df, k) == [i \in 1..Len(df) |-> df[i][k]]

\* A flag that stays set once the form holds data.
SubmittedSticky(trig) == TRUE

\* st.form_submit_button: true in the one execution its click started.
Submitted(trig) == trig = "submit"

\* st.sidebar.button: true in the one execution its click started.
Button(trig) == trig = "show"

\* load_parameters: the uploaded file when there is one, else the default
\* file, else st.error and st.stop.
LoadParameters(up, def) ==
  IF up # "none"
  THEN [stop |-> FALSE, df |-> FileContent(up), msg |-> "custom_loaded"]
  ELSE IF def = "missing"
  THEN [stop |-> TRUE, df |-> [cols |-> {}, rows |-> << >>],
        msg |-> "default_missing"]
  ELSE [stop |-> FALSE, df |-> FileContent(def), msg |-> "using_default"]

\* {"ID", "b0", "b1", "b2"}.issubset(params.columns)
HasColumns(df) == RequiredColumns \subseteq df.cols

\* params["ID"].dropna().unique().tolist(): the non-null IDs, each once, in
\* the order of their first rows.
RECURSIVE Regions(_, _)
Regions(rows, i) ==
  IF i > Len(rows) THEN << >>
  ELSE LET id == rows[i].ID
           seen == \E j \in 1..(i - 1) : rows[j].ID = id
       IN  (IF id # NaN /\ ~seen THEN << id >> ELSE << >>)
             \o Regions(rows, i + 1)

InSeq(x, s) == \E i \in 1..Len(s) : s[i] = x

\* st.sidebar.selectbox: the option held when it is still offered, else the
\* first option, else None.
Selectbox(held, regions) ==
  IF InSeq(held, regions) THEN held
  ELSE IF regions # << >> THEN regions[1]
  ELSE None

\* The gate without its test of the observations.
FitGateSubmittedOnly(sub, obs) == sub

\* if submitted and not df_obs.empty
FitGate(sub, obs) == sub /\ obs # << >>

Raised == [ok |-> FALSE, popt |-> NoPopt]

\* curve_fit(gompertz, xdata, ydata, p0=[400, 3, 0.01]): raises, or returns
\* a triple.  With fewer observations than parameters it always raises (the
\* least-squares routine refuses fewer residuals than unknowns).
CurveFit(xdata, ydata, p0) ==
  IF Len(xdata) < Len(p0) THEN { Raised }
  ELSE { Raised } \cup { [ok |-> TRUE, popt |-> p] : p \in Popts }

\* The update with negative coefficients replaced by 0.
UpdateClamped(rows, region, p) ==
  LET C(v) == IF v < 0 THEN 0 ELSE v
  IN  [i \in 1..Len(rows) |->
         IF rows[i].ID = region
         THEN [rows[i] EXCEPT !.b0 = C(p[1]), !.b1 = C(p[2]), !.b2 = C(p[3])]
         ELSE rows[i]]

\* params.loc[params["ID"] == selected_region, ["b0", "b1", "b2"]] = popt
Update(rows, region, p) ==
  [i \in 1..Len(rows) |->
     IF rows[i].ID = region
     THEN [rows[i] EXCEPT !.b0 = p[1], !.b1 = p[2], !.b2 = p[3]]
     ELSE rows[i]]

\* The try block that falls back to the initial guess when the solver raises.
FitStepFallback(rows, region, res) ==
  IF res.ok
  THEN [fit |-> "ok", popt |-> res.popt, msg |-> "fit_success",
        params |-> Update(rows, region, res.popt)]
  ELSE [fit |-> "failed", popt |-> NoPopt, msg |-> "fit_failed",
        params |-> Update(rows, region, P0)]

\* try: popt, _ = curve_fit(...); st.sidebar.success; params.loc[...] = popt
\* except Exception: st.sidebar.error
FitStep(rows, region, res) ==
  IF res.ok
  THEN [fit |-> "ok", popt |-> res.popt, msg |-> "fit_success",
        params |-> Update(rows, region, res.popt)]
  ELSE [fit |-> "failed", popt |-> NoPopt, msg |-> "fit_failed",
        params |-> rows]

\* np.linspace without its end point: the step is (stop - start) / num.
LinspaceNoEndpoint(start, stop, num) ==
  [i \in 1..num |-> << start * num + (i - 1) * (stop - start), num >>]

\* np.linspace(start, stop, num): start + i * (stop - start) / (num - 1) for
\* i = 0..num-1, the last point set to stop; rationals over num - 1.
Linspace(start, stop, num) ==
  LET div == num - 1
  IN  [i \in 1..num |->
         IF i = num THEN << stop * div, div >>
         ELSE << start * div + (i - 1) * (stop - start), div >>]

Matching(rows, region) ==
  LET Test(row) == row.ID = region IN SelectSeq(rows, Test)

\* plot_growth_curve: the first row of the region (an IndexError when there
\* is none), and gompertz along the linspace.
PlotGrowthCurve(params_df, region) ==
  LET m == Matching(params_df, region)
  IN  IF m = << >> THEN [raised |-> TRUE, curve |-> << >>]
      ELSE LET row == m[1]
               x == Linspace(CurveStart, CurveStop, CurveCount)
           IN  [raised |-> FALSE,
                curve |-> [i \in 1..Len(x) |->
                             [x |-> x[i],
                              y |-> gompertz(x[i], row.b0, row.b1, row.b2)]]]

(***************************************************************************)
(* One execution of the script                                             *)
(***************************************************************************)

\* The script from its first line to its last, or to the st.stop or the
\* uncaught exception that ends it, given the widget values it reads and the
\* solver's answer res.  The result holds the script's variables.
Script(trig, s, up, held, def, res) ==
  LET sub == Submitted(trig)
      obs == DfObs(UserData(s, 1))
      ld == LoadParameters(up, def)
      base == [trigger |-> trig, submitted |-> sub, df_obs |-> obs,
               loaded |-> << >>, params |-> << >>,
               selected_region |-> None, fit |-> "none", popt |-> NoPopt,
               solverCalls |-> 0, button |-> FALSE, curve |-> << >>,
               messages |-> << ld.msg >>, outcome |-> "stopped"]
  IN  IF ld.stop THEN base
      ELSE IF ~HasColumns(ld.df)
      THEN [base EXCEPT !.loaded = ld.df.rows, !.params = ld.df.rows,
                        !.messages = @ \o << "bad_columns" >>]
      ELSE
        LET rows == ld.df.rows
            sel == Selectbox(held, Regions(rows, 1))
            gate == FitGate(sub, obs)
            f == FitStep(rows, sel, res)
            after == IF gate THEN f.params ELSE rows
            btn == Button(trig)
            plot == PlotGrowthCurve(after, sel)
            shown == btn /\ ~plot.raised
        IN  [base EXCEPT
               !.loaded = rows,
               !.params = after,
               !.selected_region = sel,
               !.fit = IF gate THEN f.fit ELSE "none",
               !.popt = IF gate THEN f.popt ELSE NoPopt,
               !.solverCalls = IF gate THEN 1 ELSE 0,
               !.button = btn,
               !.curve = IF shown THEN plot.curve ELSE << >>,
               !.messages = @ \o (IF gate THEN << f.msg >> ELSE << >>)
                              \o (IF shown THEN << "displayed" >> ELSE << >>),
               !.outcome = IF btn /\ plot.raised THEN "exception"
                           ELSE "completed"]

\* Every way the execution can go: one per answer of the solver.
Executions(trig, s, up, held, def) ==
  LET obs == DfObs(UserData(s, 1))
  IN  { Script(trig, s, up, held, def, res) :
          res \in CurveFit(Column(obs, 1), Column(obs, 2), P0) }

\* The script's variables take the values execution r left.
Leaves(r) ==
  /\ trigger' = r.trigger
  /\ submitted' = r.submitted
  /\ df_obs' = r.df_obs
  /\ loaded' = r.loaded
  /\ params' = r.params
  /\ selected_region' = r.selected_region
  /\ fit' = r.fit
  /\ popt' = r.popt
  /\ solverCalls' = r.solverCalls
  /\ button' = r.button
  /\ curve' = r.curve
  /\ messages' = r.messages
  /\ outcome' = r.outcome

\* An interaction sets widget values and Streamlit executes the script.  The
\* select box keeps the option it showed; an execution that stopped before
\* it forgets it.
Rerun(trig, s, up, held, mode) ==
  /\ loads < MaxRuns
  /\ \E r \in Executions(trig, s, up, held, defaultFile) :
       /\ Leaves(r)
       /\ choice' = r.selected_region
       /\ lastFit' = IF r.fit = "ok"
                     THEN [ok |-> TRUE, region |-> r.selected_region,
                           popt |-> r.popt]
                     ELSE IF up # uploaded THEN NoLastFit
                     ELSE lastFit
  /\ slots' = s
  /\ uploaded' = up
  /\ input_mode' = mode
  /\ loads' = loads + 1
  /\ prevFit' = fit
  /\ UNCHANGED <<defaultFile, gvars>>

(***************************************************************************)
(* The session                                                             *)
(***************************************************************************)

EmptyForm == [i \in 1..NumSlots |-> <<0, 0>>]

\* The page as its first execution leaves it, the form holding s.
FirstRun(s, def) ==
  /\ slots = s
  /\ uploaded = "none"
  /\ input_mode = "birth_weaning"
  /\ defaultFile = def
  /\ \E r \in Executions("start", s, "none", None, def) :
       /\ trigger = r.trigger
       /\ submitted = r.submitted
       /\ df_obs = r.df_obs
       /\ loaded = r.loaded
       /\ params = r.params
       /\ selected_region = r.selected_region
       /\ fit = r.fit
       /\ popt = r.popt
       /\ solverCalls = r.solverCalls
       /\ button = r.button
       /\ curve = r.curve
       /\ messages = r.messages
       /\ outcome = r.outcome
       /\ choice = r.selected_region
  /\ loads = 1
  /\ lastFit = NoLastFit
  /\ prevFit = "none"

GIdle ==
  /\ gB = <<1, 1, 1>>
  /\ gAge = 0
  /\ gVal = 0
  /\ gPrevAge = 0
  /\ gPrevVal = 0

Init ==
  /\ \E def \in {"default", "missing"} : FirstRun(EmptyForm, def)
  /\ GIdle

\* "Add data": the form's values are sent and the script runs.
SubmitForm ==
  \E f \in Forms : Rerun("submit", f, uploaded, choice, input_mode)

\* Another option of the select box.
SelectRegion ==
  /\ outcome # "stopped"
  /\ \E i \in 1..Len(Regions(loaded, 1)) :
       /\ Regions(loaded, 1)[i] # selected_region
       /\ Rerun("select", slots, uploaded, Regions(loaded, 1)[i], input_mode)

\* A file is put into the uploader.
UploadFile ==
  \E u \in UploadNames :
    /\ u # uploaded
    /\ Rerun("upload", slots, u, choice, input_mode)

\* The uploaded file is taken out.
RemoveFile ==
  /\ uploaded # "none"
  /\ Rerun("upload", slots, "none", choice, input_mode)

\* "Show Growth Curve".
ClickShow ==
  /\ outcome # "stopped"
  /\ Rerun("show", slots, uploaded, choice, input_mode)

\* The other radio option.
ChangeInputMode ==
  Rerun("mode", slots, uploaded, choice,
        IF input_mode = "birth_weaning" THEN "weaning_slaughter"
        ELSE "birth_weaning")

Next ==
  \/ SubmitForm
  \/ SelectRegion
  \/ UploadFile
  \/ RemoveFile
  \/ ClickShow
  \/ ChangeInputMode

Spec == Init /\ [][Next]_vars

(***************************************************************************)
(* The form's filter on its own                                            *)
(***************************************************************************)

SlotValues == { <<0, 0>>, <<0, 45>>, <<100, 0>>, <<100, 45>>, <<300, 210>> }

ObsInit ==
  /\ \E s \in [1..NumSlots -> SlotValues] : FirstRun(s, "default")
  /\ GIdle

\* One row of the form is typed over and the script reads the form again.
EditSlot ==
  \E i \in 1..NumSlots, v \in SlotValues :
    /\ slots' = [slots EXCEPT ![i] = v]
    /\ df_obs' = DfObs(UserData(slots', 1))
    /\ UNCHANGED <<uploaded, choice, input_mode, defaultFile, trigger,
                   submitted, loaded, params, selected_region, fit, popt,
                   solverCalls, button, curve, messages, outcome,
                   historyVars, gvars>>

SpecObs == ObsInit /\ [][EditSlot]_vars

(***************************************************************************)
(* The growth function on its own                                          *)
(***************************************************************************)

\* Largest age (days) the growth function is evaluated at, the largest b1
\* (whole units) and the largest b2 (1/Scale units: 13/256 is about 0.05).
MaxAge == 800
MaxB1 == 3
MaxB2 == 13

\* Ages and positive coefficient triples.  At every pair of them the model's
\* value equals b0 exactly where the float64 value does (b2 = MaxB2 at
\* MaxAge) and is below b0 where the float64 value is.
GAges == {0, 1, 10, 50, 100, MaxAge}
GCoefs == {<<b0, b1, b2>> : b0 \in {Scale, 100 * Scale, 400 * Scale},
                            b1 \in {Scale \div 2, Scale, MaxB1 * Scale},
                            b2 \in {1, MaxB2}}

GInit ==
  /\ FirstRun(EmptyForm, "default")
  /\ gB \in GCoefs
  /\ gAge = 0
  /\ gVal = gompertz(<<0, 1>>, gB[1], gB[2], gB[3])
  /\ gPrevAge = 0
  /\ gPrevVal = gVal

\* Evaluate the same curve at a later (or the same) age.
Evaluate ==
  \E a \in GAges :
    /\ a >= gAge
    /\ gPrevAge' = gAge
    /\ gPrevVal' = gVal
    /\ gAge' = a
    /\ gVal' = gompertz(<<a, 1>>, gB[1], gB[2], gB[3])
    /\ UNCHANGED <<gB, appVars>>

\* Start over with another coefficient triple.
Reparam ==
  \E b \in GCoefs :
    /\ gB' = b
    /\ gAge' = 0
    /\ gVal' = gompertz(<<0, 1>>, b[1], b[2], b[3])
    /\ gPrevAge' = 0
    /\ gPrevVal' = gVal'
    /\ UNCHANGED appVars

GNext == Evaluate \/ Reparam

SpecGompertz == GInit /\ [][GNext]_vars

(***************************************************************************)
(* Properties                                                              *)
(***************************************************************************)

InTable(rows, region) == \E i \in 1..Len(rows) : rows[i].ID = region

Coefs(row) == <<row.b0, row.b1, row.b2>>

\* C1.  A successful fit for a region of the table overwrites b0, b1, b2 of
\* every row of that region with exactly the solver's triple, whatever its
\* sign or size, and changes no other row, no ID, and neither the number nor
\* the order of the rows.
C1_FitOverwritesSelected ==
  (fit = "ok" /\ InTable(loaded, selected_region)) =>
    /\ Len(params) = Len(loaded)
    /\ \A i \in 1..Len(loaded) :
         /\ params[i].ID = loaded[i].ID
         /\ IF loaded[i].ID = selected_region
            THEN Coefs(params[i]) = popt
            ELSE params[i] = loaded[i]

\* A fit that returned a negative coefficient was applied to a table that
\* has the region twice and other rows besides.
C1_Witness ==
  /\ fit = "ok"
  /\ popt[1] < 0
  /\ Cardinality({i \in 1..Len(loaded) : loaded[i].ID = selected_region}) = 2
  /\ \E j \in 1..Len(loaded) : loaded[j].ID # selected_region

\* C2 (as claimed).  Once a fit for a region has succeeded, a later display
\* of that region, the file left as it is, reads the fitted coefficients.
C2_DisplayUsesFitted ==
  (button /\ outcome = "completed" /\ lastFit.ok
     /\ lastFit.region = selected_region) =>
    Coefs(Matching(params, selected_region)[1]) = lastFit.popt

\* C3.  When the solver raises, the table after the fit step is the table
\* load_parameters returned.
C3_FailedFitKeepsTable == (fit = "failed") => (params = loaded)

\* The solver raised in an execution whose selected region is in the table.
C3_Witness ==
  /\ fit = "failed"
  /\ solverCalls = 1
  /\ InTable(loaded, selected_region)

\* C4 (as claimed).  A fit applied for an identifier that is not in the table
\* leaves the table as it is and reports a record-not-found condition, not a
\* success.
C4_AbsentIdReportsNotFound ==
  (fit = "ok" /\ ~InTable(loaded, selected_region)) =>
    /\ params = loaded
    /\ InSeq("record_not_found", messages)
    /\ ~InSeq("fit_success", messages)

\* C5 (as claimed).  A form submitted without any observation makes no call
\* of the solver, leaves the table as it is, and reports an invalid
\* observation set.
C5_EmptyReportsInvalid ==
  (submitted /\ df_obs = << >> /\ outcome = "completed") =>
    /\ solverCalls = 0
    /\ params = loaded
    /\ InSeq("invalid_observation_set", messages)

\* C5 (amended).  Without any observation, whatever the submit flag, the
\* solver is not called, the table is as loaded, and nothing about a fit is
\* reported: neither a success nor a failure.
C5_EmptySkipsFitSilently ==
  (df_obs = << >>) =>
    /\ solverCalls = 0
    /\ fit = "none"
    /\ params = loaded
    /\ ~InSeq("fit_success", messages)
    /\ ~InSeq("fit_failed", messages)

\* The form was submitted with rows that all fail the filter.
C5_Witness ==
  /\ submitted
  /\ outcome = "completed"
  /\ df_obs = << >>
  /\ \E i \in 1..NumSlots : slots[i][2] > 0

\* C6 (as claimed).  No execution ends with an uncaught exception.
C6_NoRunAborts == outcome # "exception"

\* C7.  An execution calls the solver at most once, and only when a form
\* submission started it; so after a failed fit the solver runs again only
\* after another submission.
C7_SolverOnlyOnSubmit ==
  /\ solverCalls <= 1
  /\ (solverCalls = 1) => (trigger = "submit")

\* After a failed fit, an execution started by something else than the form
\* ran to its end, the observations still in the form, without the solver.
C7_Witness ==
  /\ prevFit = "failed"
  /\ trigger # "submit"
  /\ df_obs # << >>
  /\ outcome = "completed"
  /\ solverCalls = 0

\* C8.  The points plotted are 200, from age 0 to age 800, consecutive ages
\* 800/199 apart, and each weight is gompertz at that age with b0, b1, b2 of
\* the selected region's first row.
C8_CurveSample ==
  (curve # << >>) =>
    LET row == Matching(params, selected_region)[1]
        Ahead(i) == curve[i + 1].x[1] * curve[i].x[2]
                      - curve[i].x[1] * curve[i + 1].x[2]
    IN  /\ Len(curve) = 200
        /\ curve[1].x[1] = 0
        /\ curve[200].x[1] = 800 * curve[200].x[2]
        /\ \A i \in 1..199 :
             Ahead(i) * 199 = 800 * curve[i].x[2] * curve[i + 1].x[2]
        /\ \A i \in 1..200 :
             curve[i].y = gompertz(curve[i].x, row.b0, row.b1, row.b2)

\* A curve was displayed for a region that has two rows in the table.
C8_Witness ==
  /\ button
  /\ outcome = "completed"
  /\ curve # << >>
  /\ Cardinality({i \in 1..Len(params) : params[i].ID = selected_region}) = 2

\* C9 (as claimed).  For age >= 0 and b0, b1, b2 > 0 the value does not
\* decrease with age and is strictly below b0.
C9_StrictlyBelowB0 ==
  /\ (gPrevAge <= gAge) => (gPrevVal <= gVal)
  /\ gVal < gB[1]

\* C9 (amended).  For age >= 0 and b0, b1, b2 > 0 the value does not
\* decrease with age and does not exceed b0.
C9_MonotoneAtMostB0 ==
  /\ (gPrevAge <= gAge) => (gPrevVal <= gVal)
  /\ gVal <= gB[1]

\* The curve rose between two ages and is still below b0.
C9_Witness ==
  /\ gPrevAge < gAge
  /\ gPrevVal < gVal
  /\ gVal < gB[1]

\* C10.  The observations are the form's rows with age > 0 and weight > 0,
\* in row order: at most 5, duplicates and out-of-order ages kept, none with
\* age 0 or weight 0.
C10_ObsIsFilteredForm ==
  LET Kept(n) == {j \in 1..n : slots[j][1] > 0 /\ slots[j][2] > 0}
  IN  /\ Len(df_obs) <= 5
      /\ Len(df_obs) = Cardinality(Kept(5))
      /\ \A i \in Kept(5) : df_obs[Cardinality(Kept(i))] = slots[i]
      /\ \A k \in 1..Len(df_obs) : df_obs[k][1] > 0 /\ df_obs[k][2] > 0
      /\ Column(df_obs, 1) = [k \in 1..Len(df_obs) |-> df_obs[k][1]]

\* A form with a later age first, an age twice, an age 0 with a weight and a
\* weight 0 with an age.
C10_Witness ==
  /\ slots = << <<300, 210>>, <<100, 45>>, <<100, 45>>, <<0, 45>>,
                <<100, 0>> >>
  /\ df_obs = << <<300, 210>>, <<100, 45>>, <<100, 45>> >>

====
